---------------------------- MODULE Spec2Model ----------------------------
(***************************************************************************)
(* StatApp (pcabra96/statapp): one Streamlit script, re-run from the top   *)
(* on every user interaction.  A pass goes through upload.render,          *)
(* univariate.render, bivariate.render and regression.render (app.py);     *)
(* st.stop() or an uncaught exception ends the pass early.  The only state *)
(* that outlives a pass is pyplot's registry of open figures.              *)
(*                                                                         *)
(* Library calls are modelled by their outcome: a value, or an exception.  *)
(* A cell of a numeric column is a finite number ("v"), missing ("NA") or  *)
(* an infinity ("inf": pandas reads the CSV field inf as a float).         *)
(***************************************************************************)
EXTENDS Integers, Sequences, FiniteSets, TLC

\* ------------------------------------------------------------- bounds
\* Rows of an uploaded table.
MaxRows == 3
\* Cells of an uploaded table that are missing or infinite.
MaxSpecial == 2
\* A new pass starts only while fewer figures than this are still open.
MaxLeaked == 1

\* ------------------------------------------------- program constants
\* bivariate.py:67  if len(pair) < 3
MinPairs == 3

\* ------------------------------------------------------------ datasets
ColNames == <<"a", "b", "c">>
Cols == {ColNames[i] : i \in 1..Len(ColNames)}

NumericPrefix(k) == {ColNames[i] : i \in 1..k}

\* The number of cells of the columns in cs that are missing or infinite.
SpecialCells(d, cs, r) ==
    Cardinality({p \in cs \X (1..r) : d[p[1]][p[2]] # "v"})

\* Tables with r rows whose first k columns are numeric; the other columns
\* hold text without missing values.
TablesOf(r, k) ==
    { [rows  |-> r,
       dtype |-> [c \in Cols |-> IF c \in NumericPrefix(k) THEN "number" ELSE "object"],
       data  |-> [c \in Cols |-> IF c \in NumericPrefix(k) THEN d[c] ELSE [i \in 1..r |-> "s"]]] :
      d \in { e \in [NumericPrefix(k) -> [1..r -> {"v", "NA", "inf"}]] :
                SpecialCells(e, NumericPrefix(k), r) <= MaxSpecial } }

Tables == UNION { TablesOf(r, k) : r \in 1..MaxRows, k \in 0..Len(ColNames) }

NoTable == [rows  |-> 0,
            dtype |-> [c \in Cols |-> "object"],
            data  |-> [c \in Cols |-> << >>]]

\* utils/data_io.py numeric_cols: the numeric columns, in column order.
numeric_cols(df) == SelectSeq(ColNames, LAMBDA c : df.dtype[c] = "number")

IsNa(v) == v = "NA"
NotNa(v) == v # "NA"
IsInf(v) == v = "inf"

\* pandas Series.dropna(): a new series without the missing values.
dropna(series) == SelectSeq(series, NotNa)

\* pandas Series.isna().sum()
isna_sum(series) == Len(SelectSeq(series, IsNa))

HasInf(series) == \E i \in 1..Len(series) : IsInf(series[i])

\* ------------------------------------------------------- uploaded file
\* File names are sequences of characters.
FileNames ==
    { <<"d", ".", "c", "s", "v">>,
      <<"D", ".", "C", "S", "V">>,
      <<"d", ".", "x", "l", "s", "x">>,
      <<"d", ".", "x", "l", "s">>,
      <<"d", ".", "j", "s", "o", "n">> }

LowerChar(ch) ==
    CASE ch = "C" -> "c"
      [] ch = "S" -> "s"
      [] ch = "V" -> "v"
      [] ch = "D" -> "d"
      [] ch = "X" -> "x"
      [] ch = "L" -> "l"
      [] OTHER -> ch

\* str.lower()
Lower(name) == [i \in 1..Len(name) |-> LowerChar(name[i])]

\* str.endswith(suffix)
EndsWith(name, suffix) ==
    /\ Len(suffix) <= Len(name)
    /\ SubSeq(name, Len(name) - Len(suffix) + 1, Len(name)) = suffix

DotCsv == <<".", "c", "s", "v">>
DotXlsx == <<".", "x", "l", "s", "x">>
DotXls == <<".", "x", "l", "s">>

\* What the bytes are: CSV text in UTF-8, CSV text with bytes that are not
\* UTF-8, an .xlsx workbook, or bytes no reader accepts.
FileKinds == {"utf8", "latin1", "workbook", "malformed"}

Files ==
    { [name |-> n, kind |-> k, table |-> t] :
        n \in FileNames, k \in FileKinds \ {"malformed"}, t \in Tables }
    \cup { [name |-> n, kind |-> "malformed", table |-> NoTable] : n \in FileNames }

NoFile == [name |-> << >>, kind |-> "none", table |-> NoTable]


\* ---------------------------------------------------------------- state
VARIABLES
    pc,          \* where the pass is: "start", the stage about to run, "done", "stopped", "crashed"
    uploaded,    \* upload.render: the file st.file_uploader returned (NoFile: none)
    reads,       \* load_data: the read attempts made on the file, in order
    df,          \* app.py: df, the Dataset upload.render returned (NoTable: none)
    num_cols,    \* app.py: num_cols
    loaded,      \* the Dataset as it was when upload.render returned it
    trace,       \* the stages that have returned in this pass, in order
    page,        \* the kinds of element rendered in this pass
    selected,    \* univariate.render: the columns chosen in the multiselect
    summaries,   \* univariate: the summary tables shown, in order
    y_col,       \* bivariate.render: the Y column chosen
    x_cols,      \* bivariate.render: the X columns chosen
    pairs,       \* bivariate: what was shown for each pair, in order
    selected_y,  \* app.py: selected_y, the value bivariate.render returned
    default_y,   \* regression.render: its default_y argument
    formula,     \* regression.render: the text of the formula field
    clicked,     \* regression.render: what st.button returned
    fit,         \* _fit_and_display: the call of smf.ols(...).fit() and its result
    openFigs     \* matplotlib.pyplot: the number of figures not yet closed

vars == <<pc, uploaded, reads, df, num_cols, loaded, trace, page, selected,
          summaries, y_col, x_cols, pairs, selected_y, default_y, formula, clicked,
          fit, openFigs>>

None == "None"
NoFit == [called |-> FALSE, formula |-> << >>, data |-> NoTable, result |-> "none"]

\* ------------------------------------------------------------ load_data
\* pd.read_csv on the stream at position pos: "ok" or the exception raised.
ReadCsv(file, encoding, pos) ==
    IF pos # 0 THEN "ParserError"
    ELSE CASE file.kind = "utf8" -> "ok"
           [] file.kind = "latin1" ->
                IF encoding = "utf-8" THEN "UnicodeDecodeError" ELSE "ok"
           [] file.kind = "workbook" ->
                IF encoding = "utf-8" THEN "UnicodeDecodeError" ELSE "ParserError"
           [] OTHER -> "ParserError"

\* pd.read_excel(engine="openpyxl"): "ok" or the exception raised.
ReadExcel(file) == IF file.kind = "workbook" THEN "ok" ELSE "BadZipFile"

\* The stream's position once a read attempt has consumed it.
AfterRead(pos) == pos + 1

\* Variant: load_data without the seek, the retry reads on from where the
\* first attempt stopped.
NoSeek(pos) == pos

\* uploaded_file.seek(0)
SeekStart(pos) == 0

\* Variant: the Excel branch taken for every name that is not a CSV name.
FileFormatNoElse(name) ==
    IF EndsWith(Lower(name), DotCsv) THEN "csv" ELSE "excel"

\* load_data's branch on the lower-cased name.
FileFormat(name) ==
    LET lowered == Lower(name)
    IN  IF EndsWith(lowered, DotCsv) THEN "csv"
        ELSE IF EndsWith(lowered, DotXlsx) \/ EndsWith(lowered, DotXls) THEN "excel"
        ELSE "unsupported"

Attempt(file, encoding, pos) ==
    [encoding |-> encoding, pos |-> pos, outcome |-> ReadCsv(file, encoding, pos)]

\* load_data: status "return" (with the table), "stop" (st.error, st.stop)
\* or "raise" (an exception leaves load_data).
load_data(file) ==
    LET fmt == FileFormat(file.name)
        first == Attempt(file, "utf-8", 0)
        second == Attempt(file, "latin-1", SeekStart(AfterRead(0)))
    IN  CASE fmt = "csv" ->
               IF first.outcome = "ok"
               THEN [status |-> "return", table |-> file.table, reads |-> <<first>>]
               ELSE IF first.outcome = "UnicodeDecodeError"
               THEN [status |-> IF second.outcome = "ok" THEN "return" ELSE "raise",
                     table  |-> IF second.outcome = "ok" THEN file.table ELSE NoTable,
                     reads  |-> <<first, second>>]
               ELSE [status |-> "raise", table |-> NoTable, reads |-> <<first>>]
          [] fmt = "excel" ->
               IF ReadExcel(file) = "ok"
               THEN [status |-> "return", table |-> file.table, reads |-> << >>]
               ELSE [status |-> "raise", table |-> NoTable, reads |-> << >>]
          [] OTHER -> [status |-> "stop", table |-> NoTable, reads |-> << >>]

\* ---------------------------------------------------------------- app.py
StageOrder == <<"upload", "univariate", "bivariate", "regression">>

\* Variant: the bivariate section called before the univariate one.
NextStageSwapped(stage) ==
    CASE stage = "upload" -> "bivariate"
      [] stage = "bivariate" -> "univariate"
      [] stage = "univariate" -> "regression"
      [] OTHER -> "done"

\* app.py calls the sections in this order; after the last the script ends.
NextStage(stage) ==
    CASE stage = "upload" -> "univariate"
      [] stage = "univariate" -> "bivariate"
      [] stage = "bivariate" -> "regression"
      [] OTHER -> "done"

\* Variant: upload.render without its check for numeric columns.
NoNumericIgnored(cols) == FALSE

\* upload.render: len(cols) == 0
NoNumeric(cols) == Len(cols) = 0

Init ==
    /\ pc = "start"
    /\ uploaded = NoFile
    /\ reads = << >>
    /\ df = NoTable
    /\ num_cols = << >>
    /\ loaded = NoTable
    /\ trace = << >>
    /\ page = {}
    /\ selected = << >>
    /\ summaries = << >>
    /\ y_col = None
    /\ x_cols = << >>
    /\ pairs = << >>
    /\ selected_y = None
    /\ default_y = None
    /\ formula = << >>
    /\ clicked = FALSE
    /\ fit = NoFit
    /\ openFigs = 0

\* upload.render and app.py's "if df is None: st.stop()".
Upload ==
    /\ pc = "start"
    /\ \E f \in Files \cup {NoFile} :
         LET r == IF f = NoFile
                  THEN [status |-> "none", table |-> NoTable, reads |-> << >>]
                  ELSE load_data(f)
             cols == numeric_cols(r.table)
             returns == r.status = "return" /\ ~NoNumeric(cols)
         IN  /\ uploaded' = f
             /\ reads' = r.reads
             /\ df' = IF returns THEN r.table ELSE NoTable
             /\ loaded' = IF returns THEN r.table ELSE NoTable
             /\ num_cols' = IF returns THEN cols ELSE << >>
             /\ trace' = IF returns THEN <<"upload">> ELSE << >>
             /\ pc' = CASE returns -> NextStage("upload")
                        [] r.status = "raise" -> "crashed"
                        [] OTHER -> "stopped"
             /\ page' = CASE r.status = "none" -> {"upload.info"}
                          [] r.status = "stop" -> {"upload.error_unsupported"}
                          [] r.status = "raise" -> {"exception"}
                          [] returns -> {"upload.success", "upload.preview"}
                          [] OTHER -> {"upload.success", "upload.preview",
                                       "upload.error_no_numeric"}
    /\ UNCHANGED <<selected, summaries, y_col, x_cols, pairs, selected_y,
                   default_y, formula, clicked, fit, openFigs>>


\* ------------------------------------------------------------- plotting
\* plt.figure() / plt.subplots(): one more figure is open.
NewFigure(figs) == figs + 1

\* utils/plotting.py fig_to_streamlit: savefig, st.image, plt.close(fig).
fig_to_streamlit(figs) == figs - 1

\* st.multiselect: the options chosen, here in the order of the options.
Chosen(options, S) == SelectSeq(options, LAMBDA c : c \in S)

Elems(seq) == {seq[i] : i \in 1..Len(seq)}

\* ----------------------------------------------------------- univariate
\* _histogram_boxplot: ax_hist.hist(series, bins="auto") raises ValueError
\* when the range of the data is not finite (numpy.histogram_bin_edges).
HistRaises(series) == HasInf(series)

\* Variant: the missing values of the column filled in place.
FrameAfterFillnaInplace(frame, col) ==
    [frame EXCEPT !.data[col] =
        [i \in 1..frame.rows |-> IF IsNa(@[i]) THEN "v" ELSE @[i]]]

\* What df is once _render_variable has taken df[col].dropna(): dropna
\* returns a new Series, the frame keeps its rows.
FrameAfterDropna(frame, col) == frame

\* Variant: describe() taken of the column before its missing values are dropped.
DescribeCountAllRows(frame, col) == Len(frame.data[col])

\* The rows of df[col] that series.describe() counts: those of the series
\* with the missing values dropped.
DescribeCount(frame, col) == Len(dropna(frame.data[col]))

\* n_missing = df[col].isna().sum()
MissingCount(frame, col) == isna_sum(frame.data[col])

\* _render_variable: the summary table, then the figure.  status "raise":
\* an exception left it, after the figure was created.
render_variable(frame, col, figs) ==
    LET series == dropna(frame.data[col])
        summary == [col     |-> col,
                    count   |-> DescribeCount(frame, col),
                    missing |-> MissingCount(frame, col)]
        fig == NewFigure(figs)
    IN  IF HistRaises(series)
        THEN [status |-> "raise", summary |-> summary, figs |-> fig,
              page |-> {"univariate.table"}, frame |-> FrameAfterDropna(frame, col)]
        ELSE [status |-> "ok", summary |-> summary, figs |-> fig_to_streamlit(fig),
              page |-> {"univariate.table", "univariate.image"},
              frame |-> FrameAfterDropna(frame, col)]

\* univariate.render's loop over the selected columns; it ends at the first
\* column whose rendering raises.
RECURSIVE render_variables(_, _, _)
render_variables(frame, cols, acc) ==
    IF cols = << >> \/ acc.status = "raise" THEN acc
    ELSE LET r == render_variable(acc.frame, Head(cols), acc.figs)
         IN  render_variables(frame, Tail(cols),
                 [status    |-> r.status,
                  summaries |-> Append(acc.summaries, r.summary),
                  figs      |-> r.figs,
                  page      |-> acc.page \cup r.page,
                  frame     |-> r.frame])

\* univariate.render(df, num_cols)
Univariate ==
    /\ pc = "univariate"
    /\ \E S \in SUBSET Elems(num_cols) :
         LET sel == Chosen(num_cols, S)
             r == render_variables(df, sel,
                      [status |-> "ok", summaries |-> << >>, figs |-> openFigs,
                       page |-> {}, frame |-> df])
         IN  /\ selected' = sel
             /\ summaries' = r.summaries
             /\ openFigs' = r.figs
             /\ df' = r.frame
             /\ IF r.status = "ok"
                THEN /\ pc' = NextStage("univariate")
                     /\ trace' = Append(trace, "univariate")
                     /\ page' = page \cup r.page
                ELSE /\ pc' = "crashed"
                     /\ trace' = trace
                     /\ page' = page \cup r.page \cup {"exception"}
    \* upload.render's locals are gone
    /\ uploaded' = NoFile
    /\ reads' = << >>
    /\ UNCHANGED <<num_cols, loaded, y_col, x_cols, pairs, selected_y, default_y,
                   formula, clicked, fit>>


\* ------------------------------------------------------------ bivariate
\* pair = df[[x_col, y_col]].dropna(): the rows present in both columns.
PairRows(frame, xcol, ycol) ==
    {i \in 1..frame.rows : NotNa(frame.data[xcol][i]) /\ NotNa(frame.data[ycol][i])}

PairHasInf(frame, col, rows) == \E i \in rows : IsInf(frame.data[col][i])

\* What df is once _render_pair has taken df[[x_col, y_col]].dropna().
FrameAfterPairDropna(frame, xcol, ycol) == frame

\* Whether the pair is too small to correlate: len(pair) < 3.
TooFewPairs(n) == n < MinPairs

\* What stats.pearsonr and sns.regplot do with the pair.  Finite data: both
\* return.  An infinite X: scipy's pearsonr raises ValueError where it checks
\* for finite input, and where it does not, regplot's least-squares solve
\* raises LinAlgError.  An infinite Y only: pearsonr raises or, where it does
\* not, the plot is drawn.
PairOutcomes(frame, xcol, ycol) ==
    LET rows == PairRows(frame, xcol, ycol)
    IN  IF PairHasInf(frame, xcol, rows) THEN {"raise_pearsonr", "raise_regplot"}
        ELSE IF PairHasInf(frame, ycol, rows) THEN {"raise_pearsonr", "ok"}
        ELSE {"ok"}

\* _render_pair under the library outcome lib.
render_pair(frame, xcol, ycol, figs, lib) ==
    LET n == Cardinality(PairRows(frame, xcol, ycol))
        after == FrameAfterPairDropna(frame, xcol, ycol)
        fig == NewFigure(figs)
    IN  IF TooFewPairs(n)
        THEN [status |-> "ok", figs |-> figs, frame |-> after,
              page |-> {"bivariate.warning"},
              shown |-> [x |-> xcol, n |-> n, warning |-> TRUE,
                         stats |-> FALSE, image |-> FALSE]]
        ELSE CASE lib = "raise_pearsonr" ->
                    [status |-> "raise", figs |-> figs, frame |-> after, page |-> {},
                     shown |-> [x |-> xcol, n |-> n, warning |-> FALSE,
                                stats |-> FALSE, image |-> FALSE]]
               [] lib = "raise_regplot" ->
                    [status |-> "raise", figs |-> fig, frame |-> after,
                     page |-> {"bivariate.stats"},
                     shown |-> [x |-> xcol, n |-> n, warning |-> FALSE,
                                stats |-> TRUE, image |-> FALSE]]
               [] OTHER ->
                    [status |-> "ok", figs |-> fig_to_streamlit(fig), frame |-> after,
                     page |-> {"bivariate.stats", "bivariate.image"},
                     shown |-> [x |-> xcol, n |-> n, warning |-> FALSE,
                                stats |-> TRUE, image |-> TRUE]]

\* bivariate.render's loop over xcols; it ends at the first pair whose
\* rendering raises.
RECURSIVE render_pairs(_, _, _, _)
render_pairs(xs, ycol, lib, acc) ==
    IF xs = << >> \/ acc.status = "raise" THEN acc
    ELSE LET r == render_pair(acc.frame, Head(xs), ycol, acc.figs, lib[Head(xs)])
         IN  render_pairs(Tail(xs), ycol, lib,
                 [status |-> r.status,
                  pairs  |-> Append(acc.pairs, r.shown),
                  figs   |-> r.figs,
                  page   |-> acc.page \cup r.page,
                  frame  |-> r.frame])

\* bivariate.render: fewer than 2 numeric columns.
TooFewColumns(cols) == Len(cols) < 2

\* bivariate.render(df, num_cols)
Bivariate ==
    /\ pc = "bivariate"
    /\ IF TooFewColumns(num_cols)
       THEN /\ page' = page \cup {"bivariate.too_few_columns"}
            /\ selected_y' = None
            /\ pc' = NextStage("bivariate")
            /\ trace' = Append(trace, "bivariate")
            /\ UNCHANGED <<y_col, x_cols, pairs, openFigs, df>>
       ELSE \E y \in Elems(num_cols) :
            \E S \in SUBSET (Elems(num_cols) \ {y}) :
            \E lib \in [Cols -> {"ok", "raise_pearsonr", "raise_regplot"}] :
              LET x_options == SelectSeq(num_cols, LAMBDA c : c # y)
                  xs == Chosen(x_options, S)
                  r == render_pairs(xs, y, lib,
                           [status |-> "ok", pairs |-> << >>, figs |-> openFigs,
                            page |-> {}, frame |-> df])
              IN  /\ \A c \in Cols :
                        lib[c] \in (IF c \in S THEN PairOutcomes(df, c, y) ELSE {"ok"})
                  /\ y_col' = y
                  /\ x_cols' = xs
                  /\ pairs' = r.pairs
                  /\ openFigs' = r.figs
                  /\ df' = r.frame
                  /\ IF r.status = "ok"
                     THEN /\ selected_y' = y
                          /\ pc' = NextStage("bivariate")
                          /\ trace' = Append(trace, "bivariate")
                          /\ page' = page \cup r.page
                     ELSE /\ selected_y' = selected_y
                          /\ pc' = "crashed"
                          /\ trace' = trace
                          /\ page' = page \cup r.page \cup {"exception"}
    \* univariate.render's locals are gone
    /\ selected' = << >>
    /\ summaries' = << >>
    /\ UNCHANGED <<uploaded, reads, num_cols, loaded, default_y, formula, clicked, fit>>


\* ----------------------------------------------------------- regression
\* Formula texts, as their tokens.  "zz" names no column.
Formulas ==
    { <<"a", "~", "b">>,
      <<"a", "~", "b", "+", "c">>,
      <<"b", "~", "a">>,
      <<"a", "~", "zz">>,
      <<"a", "~", "b", "+">>,
      <<"a">> }

IsName(tok) == tok \notin {"~", "+"}

HasTilde(f) == \E i \in 1..Len(f) : f[i] = "~"

\* Patsy parses the text: a response, "~", and names joined by "+".
WellFormed(f) ==
    /\ Len(f) >= 3
    /\ Len(f) % 2 = 1
    /\ f[2] = "~"
    /\ \A i \in 1..Len(f) : IF i % 2 = 1 THEN IsName(f[i]) ELSE (i = 2 \/ f[i] = "+")

Response(f) == f[1]
Predictors(f) == {f[i] : i \in {j \in 3..Len(f) : j % 2 = 1}}
Terms(f) == {Response(f)} \cup Predictors(f)

\* The rows Patsy keeps (missing="drop"): those present in every term.
UsedRows(frame, f) ==
    {i \in 1..frame.rows : \A c \in Terms(f) : NotNa(frame.data[c][i])}

\* smf.ols(formula=formula, data=df).fit(): "ok", or the exception raised.
OlsFit(frame, f) ==
    IF ~HasTilde(f) THEN "PatsyError"                 \* no outcome variable
    ELSE IF ~WellFormed(f) THEN "PatsyError"          \* the text does not parse
    ELSE IF ~(Terms(f) \subseteq Cols) THEN "PatsyError"   \* a name is no column
    ELSE IF UsedRows(frame, f) = {} THEN "ValueError" \* no row left to fit
    ELSE IF \E c \in Predictors(f) : PairHasInf(frame, c, UsedRows(frame, f))
         THEN "MissingDataError"                      \* exog contains inf
    ELSE "ok"

\* Variant: a handler that catches Patsy's errors only.
CaughtOnlyPatsyError(exc) == exc = "PatsyError"

\* _fit_and_display: "except Exception" catches every one of them.
CaughtByHandler(exc) == exc \in {"PatsyError", "ValueError", "MissingDataError"}

\* Variant: the fit run on every pass, whatever the button returned.
FitAlways(button) == TRUE

\* regression.render: "if not st.button(...): return".
FitRequested(button) == button

\* app.py: regression.render(df, num_cols, default_y=selected_y)
PassedDefaultY(y) == y

\* _fit_and_display(df, formula)
fit_and_display(frame, f, figs) ==
    LET outcome == OlsFit(frame, f)
        call == [called |-> TRUE, formula |-> f, data |-> frame,
                 result |-> IF outcome = "ok" THEN "model" ELSE "error"]
    IN  IF outcome = "ok"
        THEN [status |-> "ok", fit |-> call,
              figs |-> fig_to_streamlit(NewFigure(figs)),
              page |-> {"regression.metrics", "regression.coefficients",
                        "regression.diagnostics", "regression.summary"}]
        ELSE IF CaughtByHandler(outcome)
        THEN [status |-> "ok", fit |-> call, figs |-> figs,
              page |-> {"regression.error", "regression.hint"}]
        ELSE [status |-> "raise", fit |-> call, figs |-> figs, page |-> {"exception"}]

\* ---- the default formula (regression.render) ----

\* xs_default = [...][:3]
MaxPredictors == 3

\* A header cell of a workbook that holds a number gives a column label that
\* is that number, not text (pd.read_excel); a header of a CSV file is always
\* text. "0" and "7" stand for the integer labels 0 and 7.
IntLabels == {"0", "7"}

IsStr(label) == label \notin IntLabels

\* Python's truth value of a label or of None: None and 0 are false, every
\* other label is true (pandas never leaves a label empty).
Truthy(label) == label # None /\ label # "0"

Take(seq, n) == SubSeq(seq, 1, IF Len(seq) < n THEN Len(seq) ELSE n)

\* sep.join(items), token by token
RECURSIVE Join(_, _)
Join(items, sep) ==
    IF Len(items) = 0 THEN << >>
    ELSE IF Len(items) = 1 THEN <<items[1]>>
    ELSE <<items[1], sep>> \o Join(Tail(items), sep)

\* y_default = default_y if default_y else (num_cols[0] if num_cols else "y")
YDefault(cols, dy) ==
    IF Truthy(dy) THEN dy ELSE IF Len(cols) > 0 THEN cols[1] ELSE "y"

\* xs_default = [c for c in num_cols if c != y_default][:3]
XsDefault(cols, y) ==
    LET Other(c) == c # y
    IN  Take(SelectSeq(cols, Other), MaxPredictors)

\* formula_default = f"{y_default} ~ " + " + ".join(xs_default)
\*                   if xs_default else y_default
\* str.join raises TypeError on an item that is not text; nothing in
\* regression.render catches it.
DefaultFormula(cols, dy) ==
    LET y == YDefault(cols, dy)
        xs == XsDefault(cols, y)
    IN  IF xs = << >>
        THEN [status |-> "ok", text |-> <<y>>]
        ELSE IF \A i \in 1..Len(xs) : IsStr(xs[i])
        THEN [status |-> "ok", text |-> <<y, "~">> \o Join(xs, "+")]
        ELSE [status |-> "raise", text |-> << >>]

\* regression.render(df, num_cols, default_y)
\* The formula field holds the default formula or what the user typed.
Regression ==
    /\ pc = "regression"
    /\ LET d == DefaultFormula(num_cols, PassedDefaultY(selected_y))
       IN  IF d.status = "raise"
           THEN /\ default_y' = PassedDefaultY(selected_y)
                /\ formula' = << >>
                /\ clicked' = FALSE
                /\ fit' = NoFit
                /\ openFigs' = openFigs
                /\ page' = page \cup {"exception"}
                /\ pc' = "crashed"
                /\ trace' = trace
           ELSE \E f \in Formulas \cup {d.text}, button \in BOOLEAN :
                LET r == IF FitRequested(button)
                         THEN fit_and_display(df, f, openFigs)
                         ELSE [status |-> "ok", fit |-> NoFit, figs |-> openFigs, page |-> {}]
                IN  /\ default_y' = PassedDefaultY(selected_y)
                    /\ formula' = f
                    /\ clicked' = button
                    /\ fit' = r.fit
                    /\ openFigs' = r.figs
                    /\ page' = page \cup {"regression.form"} \cup r.page
                    /\ IF r.status = "ok"
                       THEN /\ pc' = NextStage("regression")
                            /\ trace' = Append(trace, "regression")
                       ELSE /\ pc' = "crashed"
                            /\ trace' = trace
    \* bivariate.render's locals are gone
    /\ y_col' = None
    /\ x_cols' = << >>
    /\ pairs' = << >>
    /\ UNCHANGED <<uploaded, reads, df, num_cols, loaded, selected, summaries, selected_y>>

\* The next interaction: Streamlit runs the script again from the top.
\* Nothing of the last pass is kept but pyplot's open figures.
Rerun ==
    /\ pc \in {"done", "stopped", "crashed"}
    /\ openFigs < MaxLeaked
    /\ pc' = "start"
    /\ uploaded' = NoFile
    /\ reads' = << >>
    /\ df' = NoTable
    /\ num_cols' = << >>
    /\ loaded' = NoTable
    /\ trace' = << >>
    /\ page' = {}
    /\ selected' = << >>
    /\ summaries' = << >>
    /\ y_col' = None
    /\ x_cols' = << >>
    /\ pairs' = << >>
    /\ selected_y' = None
    /\ default_y' = None
    /\ formula' = << >>
    /\ clicked' = FALSE
    /\ fit' = NoFit
    /\ UNCHANGED openFigs

Next == Upload \/ Univariate \/ Bivariate \/ Regression \/ Rerun

Spec == Init /\ [][Next]_vars

\* ---- the default formula on its own ----
\* regression.render is reached with at least one numeric column
\* (upload.render stops the pass otherwise) and with what bivariate.render
\* returned: None below two numeric columns, one of the columns otherwise.
\* The labels are those of a CSV file (text) or of a workbook (text or
\* numbers), more of them than the three of ColNames so that "[:3]" cuts.

Labels == {"a", "b", "c", "d", "e"} \cup IntLabels

MaxNumCols == 5

NumColLists ==
    UNION { { s \in [1..n -> Labels] : \A i, j \in 1..n : s[i] = s[j] => i = j }
            : n \in 1..MaxNumCols }

\* bivariate.render: "return None" below two columns, "return y_col" after
BivariateReturns(cols) == IF Len(cols) < 2 THEN {None} ELSE Elems(cols)

InitFormula ==
    /\ pc = "regression"
    /\ num_cols \in NumColLists
    /\ selected_y \in BivariateReturns(num_cols)
    /\ uploaded = NoFile
    /\ reads = << >>
    /\ df = NoTable
    /\ loaded = NoTable
    /\ trace = <<"upload", "univariate", "bivariate">>
    /\ page = {}
    /\ selected = << >>
    /\ summaries = << >>
    /\ y_col = None
    /\ x_cols = << >>
    /\ pairs = << >>
    /\ default_y = None
    /\ formula = << >>
    /\ clicked = FALSE
    /\ fit = NoFit
    /\ openFigs = 0

\* regression.render up to st.text_input("Formula", value=formula_default)
BuildDefaultFormula ==
    /\ pc = "regression"
    /\ LET d == DefaultFormula(num_cols, PassedDefaultY(selected_y))
       IN  /\ default_y' = PassedDefaultY(selected_y)
           /\ formula' = d.text
           /\ IF d.status = "ok"
              THEN /\ pc' = "regression.form"
                   /\ page' = page \cup {"regression.form"}
              ELSE /\ pc' = "crashed"
                   /\ page' = page \cup {"exception"}
    /\ UNCHANGED <<uploaded, reads, df, num_cols, loaded, trace, selected, summaries,
                   y_col, x_cols, pairs, selected_y, clicked, fit, openFigs>>

SpecFormula == InitFormula /\ [][BuildDefaultFormula]_vars



\* ================================================================ claims
RegressionTables ==
    {"regression.metrics", "regression.coefficients", "regression.diagnostics",
     "regression.summary"}

\* The three failures of a fit request that the specification names.
UnparsableFormula(f) == HasTilde(f) /\ ~WellFormed(f)

UnknownColumn(f) == WellFormed(f) /\ \E t \in Terms(f) : t \notin Cols

AllMissingColumn(frame, f) ==
    /\ WellFormed(f)
    /\ Terms(f) \subseteq Cols
    /\ \E c \in Terms(f) : \A i \in 1..frame.rows : frame.data[c][i] = "NA"

\* C1: when a fit is requested and fails (unknown column, unparsable formula,
\* all-missing column), the regression stage returns normally with the error
\* message and the hint shown, no fit-metrics table, coefficient table or
\* diagnostic plot rendered, and no uncaught exception.
C1_FitFailureReported ==
    (clicked /\ (UnparsableFormula(formula) \/ UnknownColumn(formula)
                    \/ AllMissingColumn(df, formula)))
    => /\ pc = "done"
       /\ {"regression.error", "regression.hint"} \subseteq page
       /\ page \cap RegressionTables = {}
       /\ "exception" \notin page
       /\ fit.result = "error"

C1_Witness ==
    /\ clicked
    /\ AllMissingColumn(df, formula)
    /\ pc = "done"
    /\ "regression.error" \in page

SupportedSuffix(name) ==
    EndsWith(name, DotCsv) \/ EndsWith(name, DotXlsx) \/ EndsWith(name, DotXls)

UnsupportedHalt ==
    /\ pc = "stopped"
    /\ "upload.error_unsupported" \in page
    /\ df = NoTable
    /\ num_cols = << >>
    /\ trace = << >>

\* C2 as stated: every uploaded file whose name does not end in .csv, .xlsx
\* or .xls gets the "unsupported file type" error and the pass halts with no
\* Dataset and no later stage.
C2_AsStated ==
    (uploaded # NoFile /\ ~SupportedSuffix(uploaded.name)) => UnsupportedHalt

\* C2 amended: every uploaded file whose lower-cased name does not end in
\* .csv, .xlsx or .xls gets the "unsupported file type" error and the pass
\* halts with no Dataset and no later stage.
C2_UnsupportedHalts ==
    (uploaded # NoFile /\ ~SupportedSuffix(Lower(uploaded.name))) => UnsupportedHalt

C2_Witness ==
    /\ uploaded # NoFile
    /\ ~SupportedSuffix(Lower(uploaded.name))
    /\ uploaded.kind = "utf8"
    /\ UnsupportedHalt

\* C3: a .csv upload is read as UTF-8 first, from the start of the stream; a
\* second attempt is made exactly when the first failed to decode, once, as
\* Latin-1 and again from the start; when both fail the pass ends with the
\* error shown, no Dataset and no later stage.
C3_CsvDecodeFallback ==
    (uploaded # NoFile /\ EndsWith(Lower(uploaded.name), DotCsv))
    => /\ Len(reads) \in {1, 2}
       /\ reads[1].encoding = "utf-8"
       /\ reads[1].pos = 0
       /\ (Len(reads) = 2) <=> (reads[1].outcome = "UnicodeDecodeError")
       /\ Len(reads) = 2 => (reads[2].encoding = "latin-1" /\ reads[2].pos = 0)
       /\ (reads[Len(reads)].outcome = "ok") <=> (df # NoTable \/ "upload.success" \in page)
       /\ (Len(reads) = 2 /\ reads[2].outcome # "ok")
            => /\ pc = "crashed"
               /\ "exception" \in page
               /\ df = NoTable
               /\ trace = << >>

C3_Witness ==
    /\ uploaded # NoFile
    /\ Len(reads) = 2
    /\ reads[2].outcome # "ok"
    /\ pc = "crashed"

\* C4: when the loaded Dataset has no numeric column the upload stage shows
\* an error and halts the pass without returning a Dataset; every stage that
\* runs after upload is given a non-empty list of numeric columns.
C4_NoNumericHalts ==
    /\ (/\ uploaded # NoFile
        /\ "upload.success" \in page
        /\ \A c \in Cols : uploaded.table.dtype[c] # "number")
       => /\ pc = "stopped"
          /\ "upload.error_no_numeric" \in page
          /\ df = NoTable
          /\ trace = << >>
    /\ (trace # << >> \/ pc \in {"univariate", "bivariate", "regression", "done"})
       => num_cols # << >>

C4_Witness ==
    /\ uploaded # NoFile
    /\ "upload.error_no_numeric" \in page
    /\ pc = "stopped"

CompleteRows(frame, xc, yc) ==
    {i \in 1..frame.rows : frame.data[xc][i] # "NA" /\ frame.data[yc][i] # "NA"}

\* C5: for every selected (X, Y) pair: with fewer than 3 rows present in both
\* columns a warning is shown and neither statistics nor plot; with 3 or more,
\* r, p-value and n are shown with the plot.  Every selected X is processed,
\* the bivariate stage returns Y and the regression stage is next.
C5_EveryPairReported ==
    x_cols # << >>
    => /\ Len(pairs) = Len(x_cols)
       /\ \A i \in 1..Len(pairs) :
            LET n == Cardinality(CompleteRows(df, x_cols[i], y_col))
            IN  /\ pairs[i].x = x_cols[i]
                /\ pairs[i].n = n
                /\ n < 3 => (pairs[i].warning /\ ~pairs[i].stats /\ ~pairs[i].image)
                /\ n >= 3 => (~pairs[i].warning /\ pairs[i].stats /\ pairs[i].image)
       /\ pc = "regression"
       /\ selected_y = y_col

\* The part of C5 about a skipped pair: it shows the warning only, and the
\* pairs after it are still processed unless one of them raises.
C5_SkippedPairWarnsOnly ==
    \A i \in 1..Len(pairs) :
        Cardinality(CompleteRows(df, pairs[i].x, y_col)) < 3
        => /\ pairs[i].warning /\ ~pairs[i].stats /\ ~pairs[i].image
           /\ (i = Len(pairs) => pc = "regression")

C7_FitOnlyOnTrigger ==
    /\ fit.called <=> clicked
    /\ fit.called => (fit.formula = formula /\ fit.data = df)
    /\ ~clicked => (fit = NoFit /\ page \cap (RegressionTables \cup {"regression.error"}) = {})
    /\ (pc = "done" /\ clicked) => fit.result \in {"model", "error"}

C7_Witness ==
    /\ pc = "done"
    /\ clicked
    /\ fit.result = "model"
    /\ "regression.diagnostics" \in page

\* C8: whatever a pass did, no figure is left open.
C8_NoOpenFigure == openFigs = 0

\* C9: every summary shown for a column with k non-missing values reports
\* count = k and missing = rows - k, so count + missing is the row count.
C9_SummaryCounts ==
    \A i \in 1..Len(summaries) :
        LET s == summaries[i]
            k == Cardinality({r \in 1..df.rows : df.data[s.col][r] # "NA"})
        IN  /\ s.col = selected[i]
            /\ s.count = k
            /\ s.missing = df.rows - k
            /\ s.count + s.missing = df.rows

C9_Witness ==
    \E i \in 1..Len(summaries) :
        /\ summaries[i].missing > 0
        /\ summaries[i].count > 0
        /\ pc = "bivariate"

\* C10: once upload has returned the Dataset, no stage changes it or the
\* list of numeric columns, on success and on error paths alike.
C10_DatasetUnchanged ==
    trace # << >>
    => /\ df = loaded
       /\ df \in Tables
       /\ num_cols = SelectSeq(ColNames, LAMBDA c : loaded.dtype[c] = "number")

C10_Witness ==
    /\ pc = "done"
    /\ fit.result = "error"
    /\ "univariate.table" \in page
    /\ "bivariate.warning" \in page
    /\ \E c \in Cols, i \in 1..df.rows : df.data[c][i] = "NA"


\* The response and the predictors the default formula is said to have.
StatedResponse == IF default_y # None THEN default_y ELSE num_cols[1]

StatedPredictors ==
    LET Other(c) == c # StatedResponse
    IN  Take(SelectSeq(num_cols, Other), 3)

\* The text field shows: the response alone, or "response ~ x1 + x2 ...".
ShowsFormula(y, xs) ==
    /\ pc = "regression.form"
    /\ Len(formula) = IF xs = << >> THEN 1 ELSE 2 * Len(xs) + 1
    /\ formula[1] = y
    /\ xs # << >> => formula[2] = "~"
    /\ \A i \in 1..Len(xs) :
         /\ formula[2 * i + 1] = xs[i]
         /\ i > 1 => formula[2 * i] = "+"
    /\ \A i \in 1..Len(formula) : i > 1 => formula[i] # y

\* C11: once regression.render has come to its formula field, the default
\* formula is there: its response is the Y that bivariate returned, or the
\* first numeric column when bivariate returned None; its predictors are the
\* first at most three numeric columns other than the response, in column
\* order, the response never among them; with no such predictor it is the
\* bare response name with no "~".
C11_DefaultFormula ==
    pc \in {"regression.form", "crashed"} => ShowsFormula(StatedResponse, StatedPredictors)

\* What does hold when every label is text: the formula is built as C11 says.
TextLabels == \A i \in 1..Len(num_cols) : IsStr(num_cols[i])

DefaultFormulaOfTextLabels ==
    (pc \in {"regression.form", "crashed"} /\ TextLabels)
        => ShowsFormula(StatedResponse, StatedPredictors)

\* A default formula cut to three predictors out of four candidates.
DefaultFormulaCut ==
    /\ pc = "regression.form"
    /\ TextLabels
    /\ Len(num_cols) = 5
    /\ Len(formula) = 7

=============================================================================
